---- MODULE Spec2Model ----
(***************************************************************************)
(* Model of extract_selected_tags_from_osm_complete                        *)
(* (src/src/sogreen_wp72/pipelines/osm_data_extraction/nodes.py).          *)
(*                                                                         *)
(* Strings are sequences of tokens, so that the f-strings of the code      *)
(* (f"{tag_key}={tag_value}", f"{osm_tag} (geometry: {geom_type})") are    *)
(* concatenations and two different (key, value) pairs can format to the   *)
(* same text.  The configuration `tags` is read one category, one tag key  *)
(* and one tag specification at a time, as the three nested loops of the   *)
(* code read it.                                                           *)
(***************************************************************************)
EXTENDS Naturals, Sequences, FiniteSets, TLC

VARIABLES
    pc,                   \* position in the function body
    err,                  \* name of the exception that ended the run, or "none"
    ncat,                 \* number of category_config entries read so far
    seen_keys,            \* keys of the current category_tags already iterated
    tag_key,              \* loop variable of line 39 (NoKey before the first)
    tag_spec,             \* loop variable of line 44 (NoSpec outside the loop)
    ndecls,               \* number of tag_spec entries read so far
    last_declared,        \* history: <<key, value>> -> geometry of its last tag_spec
    redeclared,           \* history: pairs declared again with another geometry
    osm_query_tags,       \* line 32: ordered dict, a sequence of [key, values]
    geometry_lookup,      \* line 33: dict from "key=value" to geometry spec
    osm_features,         \* what ox.features_from_polygon returned (line 69)
    features_gdf,         \* the working frame: rows with osm_tag once classified
    mask,                 \* results of should_keep_feature so far (line 131)
    unknown_tags,         \* line 91
    excluded_by_geometry, \* line 92
    result_gdf            \* line 154

vars == <<pc, err, ncat, seen_keys, tag_key, tag_spec, ndecls, last_declared, redeclared,
          osm_query_tags, geometry_lookup, osm_features, features_gdf, mask,
          unknown_tags, excluded_by_geometry, result_gdf>>

(***************************************************************************)
(* Bounds of the explored inputs.                                          *)
(***************************************************************************)
MaxCategories == 2
MaxDecls == 3
MaxFeatures == 2
MaxInput == 3

(***************************************************************************)
(* Text.                                                                   *)
(***************************************************************************)
KeyK == <<"k">>
KeyKV == <<"k", "=", "v">>
ValW == <<"w">>
ValVW == <<"v", "=", "w">>
ValWGeom == <<"w", " (geometry: ", "Point", ")">>
NaN == <<"NaN">>
NoKey == <<>>
UNKNOWN == <<"unknown">>

TagKeys == {KeyK, KeyKV}
TagValues == {ValW, ValVW}

\* f"{tag_key}={tag_value}" (lines 53 and 85)
FormatTag(key, value) == key \o <<"=">> \o value

\* f"{osm_tag} (geometry: {geom_type})" (line 128)
FormatMismatch(osm_tag, geom_type) == osm_tag \o <<" (geometry: ", geom_type, ")">>

(***************************************************************************)
(* Geometry specifications of the configuration: a bare string or a list.  *)
(***************************************************************************)
GeomStr(s) == [type |-> "str", val |-> <<s>>]
GeomList(l) == [type |-> "list", val |-> l]

GeometrySpecs ==
    { GeomStr("any"), GeomStr("area"), GeomStr("polygon"),
      GeomList(<<"point", "line">>), GeomList(<<>>), GeomList(<<"any">>) }

\* placeholders for the entries a tag_spec dict does not have
NoValue == <<>>
NoGeometry == [type |-> "absent", val |-> <<>>]

NoSpec == [fields |-> {}, value |-> NoValue, geometry |-> NoGeometry]

\* a tag_spec dict: the keys it has, and their values
TagSpecs ==
    { [fields |-> {"value", "geometry"}, value |-> v, geometry |-> g] :
          v \in TagValues, g \in GeometrySpecs }
    \cup { [fields |-> {"geometry"}, value |-> NoValue, geometry |-> GeomStr("area")],
           [fields |-> {"value"}, value |-> ValW, geometry |-> NoGeometry] }

(***************************************************************************)
(* Features.                                                               *)
(***************************************************************************)
NullGeometry == "None"
GeomTypes ==
    { "Point", "LineString", "MultiLineString", "Polygon", "MultiPolygon",
      "GeometryCollection" }
Geometries == GeomTypes \cup {NullGeometry}

\* the values a feature carries under each tag column (NaN: no value)
ColumnValues(key) ==
    IF key = KeyK THEN {NaN, ValW, ValVW, ValWGeom} ELSE {NaN, ValW}

\* a frame has one set of columns; every row has a cell for each of them
Rows(columns) ==
    { [attrs |-> a, geometry |-> g] :
          a \in { f \in [columns -> UNION { ColumnValues(c) : c \in columns }] :
                      \A c \in columns : f[c] \in ColumnValues(c) },
          g \in Geometries }

SeqsUpTo(S, n) == UNION { [1..m -> S] : m \in 0..n }

Min(a, b) == IF a < b THEN a ELSE b

(***************************************************************************)
(* Taxonomy compilation, lines 32-54.                                      *)
(***************************************************************************)
QueryKeys(query) == [i \in 1..Len(query) |-> query[i].key]

HasKey(query, key) == \E i \in 1..Len(query) : query[i].key = key

ValuesOf(query, key) ==
    LET i == CHOOSE j \in 1..Len(query) : query[j].key = key IN query[i].values

SeqContains(s, x) == \E i \in 1..Len(s) : s[i] = x

\* lines 41-42: if tag_key not in osm_query_tags: osm_query_tags[tag_key] = []
EnsureKey(query, key) ==
    IF HasKey(query, key) THEN query
    ELSE Append(query, [key |-> key, values |-> <<>>])

\* the membership test of line 49 inverted
AddQueryValueInverted(query, key, value) ==
    [i \in 1..Len(query) |->
        IF query[i].key = key /\ SeqContains(query[i].values, value)
        THEN [query[i] EXCEPT !.values = Append(@, value)]
        ELSE query[i]]

\* lines 49-50: append tag_value unless it is already in the list
AddQueryValue(query, key, value) ==
    [i \in 1..Len(query) |->
        IF query[i].key = key /\ ~SeqContains(query[i].values, value)
        THEN [query[i] EXCEPT !.values = Append(@, value)]
        ELSE query[i]]

\* lines 53-54: geometry_lookup[f"{tag_key}={tag_value}"] = geometry_spec
SetLookup(lookup, key, value, geometry_spec) ==
    LET osm_tag == FormatTag(key, value) IN
    [t \in DOMAIN lookup \cup {osm_tag} |->
        IF t = osm_tag THEN geometry_spec ELSE lookup[t]]

\* line 35: for category_config in tags
NextCategory ==
    /\ pc = "compile"
    /\ ncat < MaxCategories
    /\ ncat' = ncat + 1
    /\ seen_keys' = {}
    /\ tag_key' = NoKey
    /\ tag_spec' = NoSpec
    /\ UNCHANGED <<pc, err, ndecls, last_declared, redeclared, osm_query_tags,
                   geometry_lookup, osm_features, features_gdf, mask,
                   unknown_tags, excluded_by_geometry, result_gdf>>

\* lines 39-42: for tag_key, tag_values in category_tags.items()
NextTagKey ==
    /\ pc = "compile"
    /\ ncat > 0
    /\ \E key \in TagKeys \ seen_keys :
          /\ seen_keys' = seen_keys \cup {key}
          /\ tag_key' = key
          /\ osm_query_tags' = EnsureKey(osm_query_tags, key)
    /\ tag_spec' = NoSpec
    /\ UNCHANGED <<pc, err, ncat, ndecls, last_declared, redeclared,
                   geometry_lookup, osm_features, features_gdf, mask,
                   unknown_tags, excluded_by_geometry, result_gdf>>

\* lines 44-54: one iteration of "for tag_spec in tag_values"
NextTagSpec ==
    /\ pc = "compile"
    /\ tag_key # NoKey
    /\ ndecls < MaxDecls
    /\ \E spec \in TagSpecs :
          /\ tag_spec' = spec
          /\ ndecls' = ndecls + 1
          /\ IF {"value", "geometry"} \subseteq spec.fields
             THEN LET pair == <<tag_key, spec.value>> IN
                  /\ osm_query_tags' =
                         AddQueryValue(osm_query_tags, tag_key, spec.value)
                  /\ geometry_lookup' =
                         SetLookup(geometry_lookup, tag_key, spec.value,
                                   spec.geometry)
                  /\ last_declared' =
                         [p \in DOMAIN last_declared \cup {pair} |->
                             IF p = pair THEN spec.geometry
                             ELSE last_declared[p]]
                  /\ redeclared' =
                         IF pair \in DOMAIN last_declared
                            /\ last_declared[pair] # spec.geometry
                         THEN redeclared \cup {pair}
                         ELSE redeclared
                  /\ UNCHANGED <<pc, err>>
             ELSE \* tag_spec["value"] or tag_spec["geometry"] raises
                  /\ pc' = "error"
                  /\ err' = "KeyError"
                  /\ UNCHANGED <<osm_query_tags, geometry_lookup, last_declared,
                                 redeclared>>
    /\ UNCHANGED <<ncat, seen_keys, tag_key, osm_features, features_gdf, mask,
                   unknown_tags, excluded_by_geometry, result_gdf>>

\* the loops of lines 35-54 are exhausted; lines 56-57 only log
CompileDone ==
    /\ pc = "compile"
    /\ pc' = "fetch"
    /\ ncat' = 0
    /\ seen_keys' = {}
    /\ tag_key' = NoKey
    /\ tag_spec' = NoSpec
    /\ UNCHANGED <<err, ndecls, last_declared, redeclared, osm_query_tags,
                   geometry_lookup, osm_features, features_gdf, mask,
                   unknown_tags, excluded_by_geometry, result_gdf>>

(***************************************************************************)
(* Feature retrieval, lines 59-77 (the external collaborator).             *)
(***************************************************************************)
\* how many features the explored input may still hold
FeatureBudget == IF ndecls < MaxInput THEN Min(MaxFeatures, MaxInput - ndecls) ELSE 0

\* lines 60-73: the geocoder and the feature service answered
Fetch ==
    /\ pc = "fetch"
    /\ \E columns \in SUBSET TagKeys :
       \E rows \in SeqsUpTo(Rows(columns), FeatureBudget) :
          /\ Len(rows) > 0
          /\ osm_features' = rows
          /\ features_gdf' = rows
    /\ pc' = "classify"
    /\ UNCHANGED <<tag_spec, err, ncat, seen_keys, tag_key, ndecls, last_declared,
                   redeclared, osm_query_tags, geometry_lookup, mask,
                   unknown_tags, excluded_by_geometry, result_gdf>>

\* lines 63-65 and 75-77: the collaborator's exception is logged and re-raised
FetchFails ==
    /\ pc = "fetch"
    /\ pc' = "error"
    /\ err' = "Exception"
    /\ UNCHANGED <<tag_spec, ncat, seen_keys, tag_key, ndecls, last_declared, redeclared,
                   osm_query_tags, geometry_lookup, osm_features, features_gdf,
                   mask, unknown_tags, excluded_by_geometry, result_gdf>>

(***************************************************************************)
(* Classification, lines 80-88.                                            *)
(***************************************************************************)
RECURSIVE ScanKeys(_, _, _)
\* the loop of lines 82-86 from the i-th query key on
ScanKeys(row, keys, i) ==
    IF i > Len(keys) THEN UNKNOWN
    ELSE IF keys[i] \in DOMAIN row.attrs /\ row.attrs[keys[i]] # NaN
         THEN FormatTag(keys[i], row.attrs[keys[i]])
         ELSE ScanKeys(row, keys, i + 1)

Reverse(s) == [i \in 1..Len(s) |-> s[Len(s) + 1 - i]]

\* the scan run from the last query key to the first
get_osm_tag_last_match(row, query) == ScanKeys(row, Reverse(QueryKeys(query)), 1)

get_osm_tag(row, query) == ScanKeys(row, QueryKeys(query), 1)

\* line 88: features_gdf['osm_tag'] = features_gdf.apply(get_osm_tag, axis=1)
Classify ==
    /\ pc = "classify"
    /\ features_gdf' =
           [i \in 1..Len(features_gdf) |->
               [attrs |-> features_gdf[i].attrs,
                geometry |-> features_gdf[i].geometry,
                idx |-> i,
                osm_tag |-> get_osm_tag(features_gdf[i], osm_query_tags)]]
    /\ pc' = "filter"
    /\ UNCHANGED <<tag_spec, err, ncat, seen_keys, tag_key, ndecls, last_declared,
                   redeclared, osm_query_tags, geometry_lookup, osm_features,
                   mask, unknown_tags, excluded_by_geometry, result_gdf>>

(***************************************************************************)
(* Geometry filter, lines 90-131.                                          *)
(***************************************************************************)
\* the mapping with "Point" wrongly listed under "area"
geometry_type_mapping_area_point(allowed_type) ==
    CASE allowed_type = "point" -> {"Point"}
      [] allowed_type = "area" -> {"Polygon", "MultiPolygon", "Point"}
      [] allowed_type = "line" -> {"LineString", "MultiLineString"}
      [] OTHER -> {}

\* lines 116-120 with the default of .get(allowed_type, [])
geometry_type_mapping(allowed_type) ==
    CASE allowed_type = "point" -> {"Point"}
      [] allowed_type = "area" -> {"Polygon", "MultiPolygon"}
      [] allowed_type = "line" -> {"LineString", "MultiLineString"}
      [] OTHER -> {}

Outcome(raised, keep, unknown, excluded) ==
    [raised |-> raised, keep |-> keep, unknown |-> unknown, excluded |-> excluded]

\* line 100: osm_tag == 'unknown' or osm_tag not in geometry_lookup
IsUnrecognized(osm_tag, lookup) ==
    osm_tag = UNKNOWN \/ osm_tag \notin DOMAIN lookup

\* an unknown tag rejected only the first time it is seen
RejectUnknownOnce(osm_tag) ==
    IF osm_tag \in unknown_tags THEN Outcome("none", TRUE, {}, {})
    ELSE Outcome("none", FALSE, {osm_tag}, {})

\* the tag added to the other set
RejectUnknownWrongSet(osm_tag) == Outcome("none", FALSE, {}, {osm_tag})

\* lines 101-102: unknown_tags.add(osm_tag); return False
RejectUnknown(osm_tag) == Outcome("none", FALSE, {osm_tag}, {})

\* "any" taken as the wildcard wherever it appears, also as a list member
IsWildcardMember(allowed_geometries) ==
    \E i \in 1..Len(allowed_geometries.val) : allowed_geometries.val[i] = "any"

\* no wildcard: "any" is looked up in the mapping like any other name
IsWildcardNever(allowed_geometries) == FALSE

\* line 108: allowed_geometries == "any"
IsWildcard(allowed_geometries) == allowed_geometries = GeomStr("any")

\* lines 112-113 and 123-125: the string is wrapped in a list, then the loop
\* returns True on a member whose mapped shapes contain geom_type
MatchesAllowed(geom_type, allowed_geometries) ==
    \E i \in 1..Len(allowed_geometries.val) :
        geom_type \in geometry_type_mapping(allowed_geometries.val[i])

\* the mismatch rejected without a record
RejectGeometrySilent(osm_tag, geom_type) == Outcome("none", FALSE, {}, {})

\* the mismatch recorded without the observed shape
RejectGeometryTagOnly(osm_tag, geom_type) == Outcome("none", FALSE, {}, {osm_tag})

\* lines 128-129: excluded_by_geometry.add(...); return False
RejectGeometry(osm_tag, geom_type) ==
    Outcome("none", FALSE, {}, {FormatMismatch(osm_tag, geom_type)})

\* lines 94-129: the decision, and what the call adds to the two sets
should_keep_feature(row, lookup) ==
    IF row.geometry = NullGeometry
    THEN Outcome("AttributeError", FALSE, {}, {})   \* line 96: None.geom_type
    ELSE LET geom_type == row.geometry
             osm_tag == row.osm_tag
         IN  IF IsUnrecognized(osm_tag, lookup)
             THEN RejectUnknown(osm_tag)
             ELSE IF IsWildcard(lookup[osm_tag])
                  THEN Outcome("none", TRUE, {}, {})
                  ELSE IF MatchesAllowed(geom_type, lookup[osm_tag])
                       THEN Outcome("none", TRUE, {}, {})
                       ELSE RejectGeometry(osm_tag, geom_type)

\* line 131: apply() calls should_keep_feature on the next row
FilterRow ==
    /\ pc = "filter"
    /\ Len(mask) < Len(features_gdf)
    /\ LET out == should_keep_feature(features_gdf[Len(mask) + 1], geometry_lookup)
       IN  IF out.raised = "none"
           THEN /\ mask' = Append(mask, out.keep)
                /\ unknown_tags' = unknown_tags \cup out.unknown
                /\ excluded_by_geometry' = excluded_by_geometry \cup out.excluded
                /\ UNCHANGED <<pc, err>>
           ELSE /\ pc' = "error"
                /\ err' = out.raised
                /\ UNCHANGED <<mask, unknown_tags, excluded_by_geometry>>
    /\ UNCHANGED <<tag_spec, ncat, seen_keys, tag_key, ndecls, last_declared, redeclared,
                   osm_query_tags, geometry_lookup, osm_features, features_gdf,
                   result_gdf>>

\* the boolean index negated: the rows whose decision was False
SelectedInverted(frame, m) ==
    LET RECURSIVE Sel(_)
        Sel(i) == IF i > Len(frame) THEN <<>>
                  ELSE IF ~m[i] THEN <<frame[i]>> \o Sel(i + 1) ELSE Sel(i + 1)
    IN  Sel(1)

\* line 131: features_gdf[features_gdf.apply(should_keep_feature, axis=1)]
Selected(frame, m) ==
    LET RECURSIVE Sel(_)
        Sel(i) == IF i > Len(frame) THEN <<>>
                  ELSE IF m[i] THEN <<frame[i]>> \o Sel(i + 1) ELSE Sel(i + 1)
    IN  Sel(1)

\* lines 131-162: boolean indexing, then the projection to the output columns
\* (the name column, read by no decision, is left out of the rows)
Finish ==
    /\ pc = "filter"
    /\ Len(mask) = Len(features_gdf)
    /\ features_gdf' = Selected(features_gdf, mask)
    /\ result_gdf' =
           [i \in 1..Len(features_gdf') |->
               [idx |-> features_gdf'[i].idx,
                osm_tag |-> features_gdf'[i].osm_tag,
                geometry |-> features_gdf'[i].geometry]]
    /\ pc' = "done"
    /\ UNCHANGED <<tag_spec, err, ncat, seen_keys, tag_key, ndecls, last_declared,
                   redeclared, osm_query_tags, geometry_lookup, osm_features,
                   mask, unknown_tags, excluded_by_geometry>>

(***************************************************************************)
(* The function as a whole.                                                *)
(***************************************************************************)
Init ==
    /\ pc = "compile"
    /\ err = "none"
    /\ ncat = 0
    /\ seen_keys = {}
    /\ tag_key = NoKey
    /\ tag_spec = NoSpec
    /\ ndecls = 0
    /\ last_declared = <<>>
    /\ redeclared = {}
    /\ osm_query_tags = <<>>
    /\ geometry_lookup = <<>>
    /\ osm_features = <<>>
    /\ features_gdf = <<>>
    /\ mask = <<>>
    /\ unknown_tags = {}
    /\ excluded_by_geometry = {}
    /\ result_gdf = <<>>

Next ==
    \/ NextCategory
    \/ NextTagKey
    \/ NextTagSpec
    \/ CompileDone
    \/ Fetch
    \/ FetchFails
    \/ Classify
    \/ FilterRow
    \/ Finish

Spec == Init /\ [][Next]_vars

(***************************************************************************)
(* Properties.                                                             *)
(***************************************************************************)
MappedShapes == {"Point", "Polygon", "MultiPolygon", "LineString", "MultiLineString"}

\* Point -> point; Polygon, MultiPolygon -> area; LineString, MultiLineString -> line
AtomicKind(shape) ==
    CASE shape = "Point" -> "point"
      [] shape \in {"Polygon", "MultiPolygon"} -> "area"
      [] shape \in {"LineString", "MultiLineString"} -> "line"
      [] OTHER -> "unmapped"

\* the names a constraint allows: the bare string, or the members of the list
AllowedSet(constraint) == { constraint.val[i] : i \in 1..Len(constraint.val) }

\* the row the filter evaluates next, when there is one
Filtering == pc = "filter" /\ Len(mask) < Len(features_gdf)
CurrentRow == features_gdf[Len(mask) + 1]

\* C1 (geometry gate): once the filter has run, every kept feature whose
\* constraint in geometry_lookup is not the wildcard "any" has one of the five
\* mapped shapes, and the atomic kind of that shape is a member of the
\* constraint's allowed set.
C1_GeometryGate ==
    pc = "done" =>
        \A i \in 1..Len(result_gdf) :
            /\ result_gdf[i].osm_tag \in DOMAIN geometry_lookup
            /\ LET constraint == geometry_lookup[result_gdf[i].osm_tag] IN
               constraint # GeomStr("any") =>
                   /\ result_gdf[i].geometry \in MappedShapes
                   /\ AtomicKind(result_gdf[i].geometry) \in AllowedSet(constraint)

C1_Witness ==
    /\ pc = "done"
    /\ \E i \in 1..Len(result_gdf) :
          /\ result_gdf[i].geometry = "MultiLineString"
          /\ geometry_lookup[result_gdf[i].osm_tag] = GeomList(<<"point", "line">>)

\* C3 (first match wins): the osm_tag of every classified feature is
\* "{key}={value}" for the first query key, in the order of osm_query_tags,
\* that the feature carries with a non-null value, the value being the
\* feature's; it is "unknown" exactly when the feature carries no query key
\* with a non-null value.
PresentKeys(row) ==
    { i \in 1..Len(osm_query_tags) :
          /\ osm_query_tags[i].key \in DOMAIN row.attrs
          /\ row.attrs[osm_query_tags[i].key] # NaN }

C3_FirstMatchWins ==
    pc \in {"filter", "done"} =>
        \A n \in 1..Len(features_gdf) :
            LET row == features_gdf[n]
                present == PresentKeys(row)
            IN  /\ (row.osm_tag = UNKNOWN) <=> (present = {})
                /\ present # {} =>
                       LET first == CHOOSE i \in present : \A j \in present : i <= j
                           key == osm_query_tags[first].key
                       IN  row.osm_tag = key \o <<"=">> \o row.attrs[key]

C3_Witness ==
    /\ pc = "filter"
    /\ QueryKeys(osm_query_tags) = <<KeyKV, KeyK>>
    /\ \E n \in 1..Len(features_gdf) :
          /\ features_gdf[n].attrs = (KeyK :> ValW @@ KeyKV :> ValW)
          /\ features_gdf[n].osm_tag = <<"k", "=", "v", "=", "w">>

\* C4 (unrecognized tag): the filter rejects a feature that has a shape as
\* unrecognized if and only if its osm_tag is "unknown" or is no key of
\* geometry_lookup; it then adds the osm_tag to unknown_tags and nothing to
\* excluded_by_geometry, whatever the shape, and otherwise leaves unknown_tags
\* as it is.
C4_UnrecognizedTag ==
    [][ (Filtering /\ CurrentRow.geometry # NullGeometry) =>
          LET osm_tag == CurrentRow.osm_tag
              unrecognized == osm_tag = UNKNOWN \/ osm_tag \notin DOMAIN geometry_lookup
          IN  /\ unrecognized =>
                    /\ pc' = "filter"
                    /\ mask' = Append(mask, FALSE)
                    /\ unknown_tags' = unknown_tags \cup {osm_tag}
                    /\ excluded_by_geometry' = excluded_by_geometry
              /\ ~unrecognized => unknown_tags' = unknown_tags ]_vars

C4_Witness ==
    /\ pc = "filter"
    /\ geometry_lookup # <<>>
    /\ \E n \in 1..Len(mask) :
          /\ ~mask[n]
          /\ features_gdf[n].osm_tag = <<"k", "=", "w">>
          /\ features_gdf[n].osm_tag \notin DOMAIN geometry_lookup
          /\ features_gdf[n].osm_tag \in unknown_tags
          /\ features_gdf[n].geometry = "GeometryCollection"

\* C5 (wildcard): a feature that has a shape and whose osm_tag maps in
\* geometry_lookup to the bare string "any" is kept, whatever the shape (the
\* five mapped ones or another), and the call adds nothing to unknown_tags or
\* excluded_by_geometry.
C5_Wildcard ==
    [][ ( /\ Filtering
          /\ CurrentRow.geometry # NullGeometry
          /\ CurrentRow.osm_tag \in DOMAIN geometry_lookup
          /\ geometry_lookup[CurrentRow.osm_tag] = GeomStr("any") ) =>
          /\ pc' = "filter"
          /\ mask' = Append(mask, TRUE)
          /\ unknown_tags' = unknown_tags
          /\ excluded_by_geometry' = excluded_by_geometry ]_vars

C5_Witness ==
    /\ pc = "done"
    /\ \E i \in 1..Len(result_gdf) :
          /\ result_gdf[i].geometry = "GeometryCollection"
          /\ geometry_lookup[result_gdf[i].osm_tag] = GeomStr("any")

\* C6 (geometry mismatch): a feature whose osm_tag is a key of geometry_lookup
\* with a constraint other than the wildcard, and whose shape is none of the
\* five mapped ones or has an atomic kind outside the allowed set, is rejected;
\* exactly "{osm_tag} (geometry: {shape})" is added to excluded_by_geometry and
\* nothing to unknown_tags.
C6_GeometryMismatch ==
    [][ ( /\ Filtering
          /\ CurrentRow.geometry # NullGeometry
          /\ CurrentRow.osm_tag \in DOMAIN geometry_lookup
          /\ geometry_lookup[CurrentRow.osm_tag] # GeomStr("any")
          /\ \/ CurrentRow.geometry \notin MappedShapes
             \/ AtomicKind(CurrentRow.geometry)
                    \notin AllowedSet(geometry_lookup[CurrentRow.osm_tag]) ) =>
          /\ pc' = "filter"
          /\ mask' = Append(mask, FALSE)
          /\ excluded_by_geometry' =
                 excluded_by_geometry
                     \cup {CurrentRow.osm_tag
                               \o <<" (geometry: ", CurrentRow.geometry, ")">>}
          /\ unknown_tags' = unknown_tags ]_vars

C6_Witness ==
    /\ pc = "filter"
    /\ \E n \in 1..Len(mask) :
          /\ ~mask[n]
          /\ features_gdf[n].geometry = "Point"
          /\ features_gdf[n].osm_tag = <<"k", "=", "w">>
          /\ features_gdf[n].osm_tag \in DOMAIN geometry_lookup
          /\ geometry_lookup[features_gdf[n].osm_tag] = GeomStr("area")
          /\ excluded_by_geometry = {<<"k", "=", "w", " (geometry: ", "Point", ")">>}
          /\ unknown_tags = {}

\* the osm_tag line 88 gave the i-th input feature, and whether it is in the output
InputTag(i) == get_osm_tag(osm_features[i], osm_query_tags)
InputMismatch(i) == InputTag(i) \o <<" (geometry: ", osm_features[i].geometry, ")">>
Kept(i) == \E j \in 1..Len(result_gdf) : result_gdf[j].idx = i

\* every input feature is kept, or excluded with its tag in unknown_tags, or
\* excluded with its mismatch string in excluded_by_geometry: exactly one of
\* the three, and a kept feature has no entry in either set
FeaturesPartitioned ==
    \A i \in 1..Len(osm_features) :
        LET unrecognized == ~Kept(i) /\ InputTag(i) \in unknown_tags
            mismatched == ~Kept(i) /\ InputMismatch(i) \in excluded_by_geometry
        IN  /\ Kept(i) \/ unrecognized \/ mismatched
            /\ ~(unrecognized /\ mismatched)
            /\ Kept(i) => /\ InputTag(i) \notin unknown_tags
                          /\ InputMismatch(i) \notin excluded_by_geometry

\* C2 (completeness of partition), as stated: after the run every input feature
\* is in exactly one of the kept output, the unrecognized-tag set (by its tag)
\* and the geometry-mismatch set (by its "{tag} (geometry: {shape})" string),
\* and the two diagnostic sets are disjoint.
C2_PartitionDisjointSets ==
    pc = "done" =>
        /\ FeaturesPartitioned
        /\ unknown_tags \cap excluded_by_geometry = {}

\* C2 as amended: after the run every input feature is in exactly one of the
\* kept output, the unrecognized-tag set and the geometry-mismatch set; no kept
\* feature is recorded in a diagnostic set and none is dropped without an
\* entry.  (The two sets themselves can share a string.)
C2_Partition == pc = "done" => FeaturesPartitioned

C2_Witness ==
    /\ pc = "done"
    /\ Len(osm_features) = 2
    /\ Len(result_gdf) = 1
    /\ Cardinality(excluded_by_geometry) = 1
    /\ unknown_tags = {}

\* str.split("=", 1): the text before the first "=" and the text after it
HasEq(text) == \E i \in 1..Len(text) : text[i] = "="
SplitTag(text) ==
    IF ~HasEq(text) THEN <<text, <<>>>>
    ELSE LET i == CHOOSE n \in 1..Len(text) :
                      text[n] = "=" /\ \A m \in 1..(n - 1) : text[m] # "="
         IN  <<SubSeq(text, 1, i - 1), SubSeq(text, i + 1, Len(text))>>

\* every kept osm_tag splits into a query key and a value registered for it,
\* and is a key of geometry_lookup
KeptTagsRoundTrip ==
    \A i \in 1..Len(result_gdf) :
        LET pair == SplitTag(result_gdf[i].osm_tag) IN
        /\ HasKey(osm_query_tags, pair[1])
        /\ SeqContains(ValuesOf(osm_query_tags, pair[1]), pair[2])
        /\ result_gdf[i].osm_tag \in DOMAIN geometry_lookup

\* C7 (tag round-trip), as stated: for every taxonomy, also one whose keys or
\* values contain "=", splitting the osm_tag of a kept feature on "=" gives a
\* query key and one of the values registered for that key.
C7_TagRoundTrip == pc = "done" => KeptTagsRoundTrip

PlainKeys == \A i \in 1..Len(osm_query_tags) : ~HasEq(osm_query_tags[i].key)

\* C7 as amended: for every taxonomy none of whose tag keys contains "="
\* (values may), splitting the osm_tag of a kept feature at its first "=" gives
\* a query key and one of the values registered for that key.
C7_TagRoundTripPlainKeys == (pc = "done" /\ PlainKeys) => KeptTagsRoundTrip

C7_Witness ==
    /\ pc = "done"
    /\ PlainKeys
    /\ \E i \in 1..Len(result_gdf) : result_gdf[i].osm_tag = <<"k", "=", "v", "=", "w">>

\* a tag_spec without 'value', without 'geometry', or with an empty list as geometry
InvalidSpec(spec) ==
    \/ "value" \notin spec.fields
    \/ "geometry" \notin spec.fields
    \/ spec.geometry = GeomList(<<>>)

\* C8 (configuration errors): reading a tag_spec that omits 'value', omits
\* 'geometry' or has an empty list as 'geometry' ends the compilation with an
\* error, so no taxonomy holding an empty geometry reaches classification.
C8_InvalidSpecFails ==
    /\ (tag_spec # NoSpec /\ InvalidSpec(tag_spec)) => pc = "error"
    /\ pc \in {"classify", "filter", "done"} =>
           \A pair \in DOMAIN last_declared : last_declared[pair] # GeomList(<<>>)

\* C9 (no per-feature exception): once the features are fetched, the run never
\* ends in an exception, whatever the features' attributes and geometry.
C9_NeverRaises == Len(osm_features) > 0 => pc # "error"

Occurrences(s, x) == Cardinality({ i \in 1..Len(s) : s[i] = x })

\* C10 (last write wins): after the compilation, for every (key, value) pair
\* declared more than once with different geometries, geometry_lookup at
\* "key=value" is the geometry of the pair's last declaration and the value is
\* once in the query values of the key.
C10_LastWriteWins ==
    pc = "fetch" =>
        \A pair \in redeclared :
            LET text == pair[1] \o <<"=">> \o pair[2] IN
            /\ text \in DOMAIN geometry_lookup
            /\ geometry_lookup[text] = last_declared[pair]
            /\ Occurrences(ValuesOf(osm_query_tags, pair[1]), pair[2]) = 1

\* the (key, value) pairs of osm_query_tags, and the text each formats to
QueryPairs ==
    UNION { { <<osm_query_tags[i].key, osm_query_tags[i].values[j]>> :
                  j \in 1..Len(osm_query_tags[i].values) } :
            i \in 1..Len(osm_query_tags) }
PairText(pair) == pair[1] \o <<"=">> \o pair[2]

\* C11 (compiled-taxonomy invariant): after the compilation every (key, value)
\* pair of osm_query_tags has its entry "key=value" in geometry_lookup, every
\* entry of geometry_lookup comes from exactly one pair (two distinct pairs
\* never share an entry), and no value list holds a value twice.
C11_CompiledTaxonomy ==
    pc = "fetch" =>
        /\ \A pair \in QueryPairs : PairText(pair) \in DOMAIN geometry_lookup
        /\ \A text \in DOMAIN geometry_lookup :
               Cardinality({ pair \in QueryPairs : PairText(pair) = text }) = 1
        /\ \A i \in 1..Len(osm_query_tags) :
               \A v \in TagValues : Occurrences(osm_query_tags[i].values, v) <= 1

\* the decision on the i-th input feature, from that feature and the compiled
\* taxonomy alone
TagRecognized(i) == InputTag(i) # UNKNOWN /\ InputTag(i) \in DOMAIN geometry_lookup
ShapeAccepted(i) ==
    /\ TagRecognized(i)
    /\ \/ geometry_lookup[InputTag(i)] = GeomStr("any")
       \/ AtomicKind(osm_features[i].geometry)
              \in AllowedSet(geometry_lookup[InputTag(i)])

\* C12 (order independence): the decision on a feature is a function of that
\* feature and the compiled taxonomy, whatever was decided or recorded before
\* it; the kept features and the two diagnostic sets are therefore the sets
\* below, which do not depend on the order of the features.
C12_OrderIndependence ==
    pc \in {"filter", "done"} =>
        LET seen == 1..Len(mask) IN
        /\ \A i \in seen : mask[i] <=> ShapeAccepted(i)
        /\ unknown_tags = { InputTag(i) : i \in { n \in seen : ~TagRecognized(n) } }
        /\ excluded_by_geometry =
               { InputMismatch(i) :
                     i \in { n \in seen : TagRecognized(n) /\ ~ShapeAccepted(n) } }
        /\ pc = "done" =>
               { result_gdf[j].idx : j \in 1..Len(result_gdf) }
                   = { i \in seen : ShapeAccepted(i) }

C12_Witness ==
    /\ pc = "done"
    /\ mask = <<FALSE, TRUE>>
    /\ InputTag(1) = InputTag(2)
    /\ Cardinality(excluded_by_geometry) = 1

\* lines 88 and 131 applied once more to a row: the osm_tag column is assigned
\* anew from the row's columns, then should_keep_feature decides
SecondPass(row) ==
    should_keep_feature(
        [row EXCEPT !.osm_tag = get_osm_tag(row, osm_query_tags)], geometry_lookup)

\* a row of the returned frame read as an input row: its columns are name,
\* osm_tag and geometry (lines 140-154), so it has no tag column
OutputAsInput(r) ==
    [attrs |-> <<>>, geometry |-> r.geometry, idx |-> r.idx, osm_tag |-> r.osm_tag]

StableUnderSecondPass(row) ==
    SecondPass(row) = Outcome("none", TRUE, {}, {})

FirstPresent(i) ==
    CHOOSE n \in PresentKeys(osm_features[i]) :
        \A m \in PresentKeys(osm_features[i]) : n <= m
FirstPair(i) ==
    <<osm_query_tags[FirstPresent(i)].key,
      osm_features[i].attrs[osm_query_tags[FirstPresent(i)].key]>>

\* C14 (shadowing by the first present key): a decided feature whose first
\* present query key carries a value not configured for that key is rejected
\* with its tag in unknown_tags, whatever its later keys carry; a feature is
\* kept only if the pair of its first present query key is a configured pair.
C14_Shadowing ==
    pc \in {"filter", "done"} =>
        \A i \in 1..Len(mask) :
            /\ (PresentKeys(osm_features[i]) # {} /\ FirstPair(i) \notin QueryPairs)
                   => (~mask[i] /\ InputTag(i) \in unknown_tags)
            /\ mask[i] =>
                   (PresentKeys(osm_features[i]) # {} /\ FirstPair(i) \in QueryPairs)

KindNames == {"point", "area", "line"}

\* C15 (only the bare string "any" is the wildcard): for a feature that has a
\* shape and a recognized tag whose constraint is not the bare string "any",
\* the feature is kept exactly when a member of the constraint (the string
\* itself, or a list member) is one of point, area, line and is the kind of
\* the feature's shape; a member "any" or any other name matches nothing, so
\* under ["any"], a list without a kind name or a misspelled string the
\* feature is rejected and recorded in excluded_by_geometry.
C15_OnlyBareAnyIsWildcard ==
    [][ ( /\ Filtering
          /\ CurrentRow.geometry # NullGeometry
          /\ CurrentRow.osm_tag \in DOMAIN geometry_lookup
          /\ geometry_lookup[CurrentRow.osm_tag] # GeomStr("any") ) =>
          LET constraint == geometry_lookup[CurrentRow.osm_tag]
              matched == \E name \in AllowedSet(constraint) \cap KindNames :
                             name = AtomicKind(CurrentRow.geometry)
          IN  /\ pc' = "filter"
              /\ unknown_tags' = unknown_tags
              /\ mask' = Append(mask, matched)
              /\ excluded_by_geometry' =
                     IF matched THEN excluded_by_geometry
                     ELSE excluded_by_geometry \cup
                              { FormatMismatch(CurrentRow.osm_tag, CurrentRow.geometry) }
      ]_vars

C15_Witness ==
    /\ pc = "filter"
    /\ Len(mask) = 2
    /\ mask = <<FALSE, FALSE>>
    /\ features_gdf[1].osm_tag \in DOMAIN geometry_lookup
    /\ features_gdf[2].osm_tag = features_gdf[1].osm_tag
    /\ geometry_lookup[features_gdf[1].osm_tag] = GeomList(<<"any">>)
    /\ features_gdf[1].geometry = "Polygon"
    /\ features_gdf[2].geometry = "Point"
    /\ Cardinality(excluded_by_geometry) = 2

====
